---- MODULE Spec2Model ----
(***************************************************************************)
(* Tree-of-thoughts breadth-first search (src/src/tot/methods/bfs.py):     *)
(* get_value, get_values, get_votes, get_proposals, get_samples, solve and *)
(* naive_solve, run against a nondeterministic model backend (gpt) and a   *)
(* task object that owns the value cache.                                  *)
(*                                                                         *)
(* Strings are sequences of one-character strings; Python list indices     *)
(* (ids, select_ids) stay 0-based, so values[id] of the source is          *)
(* values[id + 1] here.                                                    *)
(***************************************************************************)
EXTENDS Integers, Sequences, FiniteSets, TLC

VARIABLES pc, op, args, task_steps, x, step, ys, gen, new_ys, values,
          local_value_cache, select_ids, infos, value_cache, calls, error,
          ret, backend, evals, work, runs, outputs

vars == <<pc, op, args, task_steps, x, step, ys, gen, new_ys, values,
          local_value_cache, select_ids, infos, value_cache, calls, error,
          ret, backend, evals, work, runs, outputs>>

----------------------------------------------------------------------------
(* Bounds of the model *)

\* The invocations followed on one task object are bounded by their cost: a
\* search run costs task.steps * (candidates generated per frontier member)
\* * n_select_sample, any other call the number of candidates it handles.
\* MaxWork is the total cost followed against a deterministic backend stub,
\* MaxLlmWork against the freely answering backend.
MaxWork == 5
MaxLlmWork == 3
\* a single rating returned by the backend for a value prompt is in 0..MaxScore
MaxScore == 2
\* longest completion text the fuzzing backend returns for a proposal prompt
MaxLen == 3

----------------------------------------------------------------------------
(* Strings and small helpers *)

NL == "\n"
None == "None"
Chars == {"a", "b", NL}

RECURSIVE Sum(_)
Sum(s) == IF s = <<>> THEN 0 ELSE s[1] + Sum(Tail(s))

\* the concatenation with the candidates already present left out
RECURSIVE flatten_unique(_)
flatten_unique(seqs) ==
    IF seqs = <<>> THEN <<>>
    ELSE LET front == flatten_unique(SubSeq(seqs, 1, Len(seqs) - 1))
         IN  front \o SelectSeq(seqs[Len(seqs)],
                                LAMBDA c : \A i \in 1..Len(front) : front[i] # c)

RECURSIVE Flatten(_)
\* list(itertools.chain(*new_ys))
Flatten(ss) == IF ss = <<>> THEN <<>> ELSE ss[1] \o Flatten(Tail(ss))

Range(s) == {s[i] : i \in 1..Len(s)}

\* all strings over alphabet A of length at most n
StringsUpTo(A, n) == UNION {[1..k -> A] : k \in 0..n}

----------------------------------------------------------------------------
(* The task object's collaborators (tot.tasks): prompt wrappers, unwraps   *)

standard_prompt_wrap(x_, y) == <<"standard", x_, y>>
cot_prompt_wrap(x_, y) == <<"cot", x_, y>>
propose_prompt_wrap(x_, y) == <<"propose", x_, y>>
value_prompt_wrap(x_, y) == <<"value", x_, y>>
vote_prompt_wrap(x_, ys_) == <<"vote", x_, ys_>>

\* reduces the raw rating outputs of one scoring call to one scalar
value_outputs_unwrap(x_, y, value_outputs) == Sum(value_outputs)

\* each raw vote output names one candidate position (0: no parsable vote);
\* a candidate's score is the number of votes it received
vote_outputs_unwrap(vote_outputs, n_candidates) ==
    [i \in 1..n_candidates |->
        Cardinality({k \in 1..Len(vote_outputs) : vote_outputs[k] = i})]

\* task.get_input(idx)
get_input(idx) == IF idx = 0 THEN "x0" ELSE "x1"

\* task.stops[step]
task_stops(s) == NL

EmptyCache == [p \in {} |-> 0]

----------------------------------------------------------------------------
(* The model backend, gpt(prompt, n, stop): the response sets it draws from *)

SampleCompletions == {<<"a">>, <<"b", "b">>}
ProposeCompletions == {<<"a">>, <<"a", NL, "b">>, <<NL>>}


\* the n completions of one call, by the kind of prompt and the backend stub
gpt(prompt, n, stop) ==
    CASE prompt[1] \in {"standard", "cot"} -> [1..n -> SampleCompletions]
      [] prompt[1] = "propose" ->
            IF backend = "fuzz"
            THEN [1..n -> StringsUpTo({"a", NL}, MaxLen)]
            ELSE [1..n -> ProposeCompletions]
      [] prompt[1] = "value" ->
            CASE backend = "length" -> {[i \in 1..n |-> Len(prompt[3])]}
              [] OTHER -> [1..n -> 0..MaxScore]
      [] prompt[1] = "vote" -> [1..n -> 0..Len(prompt[3])]

Call(fn, prompt, n, stop) ==
    [fn |-> fn, prompt |-> prompt, n |-> n, stop |-> stop, step |-> step]

----------------------------------------------------------------------------
(* Outcomes of a call: the value returned or the error raised, the backend *)
(* calls it issued, and (for the evaluator) the value cache it leaves.     *)

\* what the backend answered to the last call issued: nothing asked yet, an
\* exception, or the completions returned
NotAsked == [status |-> "not asked", val |-> <<>>, scores |-> <<>>]
Raised == [status |-> "raised", val |-> <<>>, scores |-> <<>>]
Returned(completions) ==
    [status |-> "returned", val |-> completions, scores |-> <<>>]
\* the completions of a scoring call, as the numbers the task reads in them
Scored(completions) ==
    [status |-> "returned", val |-> <<>>, scores |-> completions]

Ok(val, called, outs) ==
    [raised |-> "none", val |-> val, called |-> called, outs |-> outs]
\* the exception is swallowed and an empty result returned in its place
Raise_swallowed(err, called, outs) ==
    [raised |-> "none", val |-> <<>>, called |-> called, outs |-> outs]

Raise(err, called, outs) ==
    [raised |-> err, val |-> <<>>, called |-> called, outs |-> outs]

BackendError == "backend failure"
PromptSampleError == "ValueError: prompt_sample not recognized"
NewYsUnbound == "UnboundLocalError: new_ys"
ValuesUnbound == "UnboundLocalError: values"
SelectIdsUnbound == "UnboundLocalError: select_ids"
ProbabilitiesError == "ValueError: probabilities contain NaN"

----------------------------------------------------------------------------
(* Generation *)

RECURSIVE split(_)
\* str.split('\n'): the segments between line terminators, empty ones kept
split(s) ==
    IF s = <<>> THEN << <<>> >>
    ELSE LET rest == split(Tail(s))
         IN  IF s[1] = NL
             THEN << <<>> >> \o rest
             ELSE << <<s[1]>> \o rest[1] >> \o Tail(rest)

\* [y + _ + '\n' for _ in proposals]
proposals_of(y, completion) ==
    LET proposals == split(completion)
    IN  [i \in 1..Len(proposals) |-> y \o proposals[i] \o <<NL>>]

\* the completions returned as they are, y left out
samples_of_bare(y, samples) == samples

\* [y + _ for _ in samples]
samples_of(y, samples) == [i \in 1..Len(samples) |-> y \o samples[i]]

get_proposals(x_, y) ==
    LET propose_prompt == propose_prompt_wrap(x_, y)
        called == <<Call("get_proposals", propose_prompt, 1, None)>>
    IN  {Ok(proposals_of(y, c[1]), called, Returned(c)) : c \in gpt(propose_prompt, 1, None)}
        \cup {Raise(BackendError, called, Raised)}

\* one backend call for each sample wanted, in place of one call for all
get_samples_one_by_one(x_, y, n_generate_sample, prompt_sample, stop) ==
    LET prompt == standard_prompt_wrap(x_, y)
        called == [i \in 1..n_generate_sample |->
                      Call("get_samples", prompt, 1, stop)]
    IN  {Ok(samples_of(y, samples), called, Returned(samples)) :
             samples \in gpt(prompt, n_generate_sample, stop)}

get_samples(x_, y, n_generate_sample, prompt_sample, stop) ==
    IF prompt_sample \in {"standard", "cot"}
    THEN LET prompt == IF prompt_sample = "standard"
                       THEN standard_prompt_wrap(x_, y)
                       ELSE cot_prompt_wrap(x_, y)
             called == <<Call("get_samples", prompt, n_generate_sample, stop)>>
         IN  {Ok(samples_of(y, samples), called, Returned(samples)) :
                  samples \in gpt(prompt, n_generate_sample, stop)}
             \cup {Raise(BackendError, called, Raised)}
    ELSE {Raise(PromptSampleError, <<>>, outputs)}

----------------------------------------------------------------------------
(* Evaluation *)

CachePut(cache, k, v) ==
    [p \in DOMAIN cache \cup {k} |-> IF p = k THEN v ELSE cache[p]]

\* the cache is never consulted
cache_hit_never(cache_value, value_prompt) == FALSE

\* cache_value and value_prompt in task.value_cache
cache_hit(cache_value, value_prompt) ==
    cache_value /\ value_prompt \in DOMAIN value_cache

\* the score is stored whether caching is enabled or not
cache_store_always(cache_value, value_prompt, value) ==
    CachePut(value_cache, value_prompt, value)

\* the cache is started afresh with the new score
cache_store_afresh(cache_value, value_prompt, value) ==
    IF cache_value THEN CachePut(EmptyCache, value_prompt, value)
    ELSE value_cache

\* task.value_cache after a scoring call returned value
cache_store(cache_value, value_prompt, value) ==
    IF cache_value THEN CachePut(value_cache, value_prompt, value)
    ELSE value_cache

\* outcomes of get_value: val, the calls issued, the cache left behind and
\* whether the cache was consulted
get_value(x_, y, n_evaluate_sample, cache_value) ==
    LET value_prompt == value_prompt_wrap(x_, y)
        called == <<Call("get_value", value_prompt, n_evaluate_sample, None)>>
    IN  IF cache_hit(cache_value, value_prompt)
        THEN {[raised |-> "none", val |-> value_cache[value_prompt],
               called |-> <<>>, outs |-> outputs, cache |-> value_cache]}
        ELSE {[raised |-> "none",
               val |-> value_outputs_unwrap(x_, y, value_outputs),
               called |-> called, outs |-> Scored(value_outputs),
               cache |-> cache_store(cache_value, value_prompt,
                             value_outputs_unwrap(x_, y, value_outputs))] :
                  value_outputs \in gpt(value_prompt, n_evaluate_sample, None)}
             \cup {[raised |-> BackendError, val |-> 0, called |-> called,
                    outs |-> Raised, cache |-> value_cache]}

get_votes(x_, ys_, n_evaluate_sample) ==
    LET vote_prompt == vote_prompt_wrap(x_, ys_)
        called == <<Call("get_votes", vote_prompt, n_evaluate_sample, None)>>
    IN  {Ok(vote_outputs_unwrap(vote_outputs, Len(ys_)), called,
            Scored(vote_outputs)) :
             vote_outputs \in gpt(vote_prompt, n_evaluate_sample, None)}
        \cup {Raise(BackendError, called, Raised)}

\* the record of one get_value invocation
Eval(x_, y, cache_value, r) ==
    [cache_value |-> cache_value,
     cached_before |-> value_prompt_wrap(x_, y) \in DOMAIN value_cache,
     ncalls |-> Len(r.called), raised |-> r.raised, val |-> r.val]

\* evals keeps, for each (x, y), the last two get_value invocations made on
\* this task object
Recorded(x_, y, e) ==
    LET k == <<x_, y>>
        old == IF k \in DOMAIN evals THEN evals[k] ELSE <<>>
        new == IF Len(old) < 2 THEN Append(old, e) ELSE <<old[2], e>>
    IN  [p \in DOMAIN evals \cup {k} |-> IF p = k THEN new ELSE evals[p]]

----------------------------------------------------------------------------
(* Selection *)

\* list(range(len(new_ys)))
ids_of(new_ys_) == [i \in 1..Len(new_ys_) |-> i - 1]

\* an equal score goes before the ids already placed: ties come out reversed
insert_pos_unstable(s, e, values_) ==
    Cardinality({i \in 1..Len(s) : values_[s[i] + 1] > values_[e + 1]})

\* ascending instead of descending order
insert_pos_ascending(s, e, values_) ==
    Cardinality({i \in 1..Len(s) : values_[s[i] + 1] <= values_[e + 1]})

\* where a stable descending sort puts id e in the already sorted prefix s
insert_pos(s, e, values_) ==
    Cardinality({i \in 1..Len(s) : values_[s[i] + 1] >= values_[e + 1]})

RECURSIVE sorted_desc(_, _)
\* sorted(ids, key=lambda x: values[x], reverse=True)
sorted_desc(ids, values_) ==
    IF ids = <<>> THEN <<>>
    ELSE LET e == ids[Len(ids)]
             \* the sorted prefix s is bound as a value, so that it is computed
             \* once
             placed == {SubSeq(s, 1, k) \o <<e>> \o SubSeq(s, k + 1, Len(s)) :
                          <<s, k>> \in
                             {<<t, insert_pos(t, e, values_)>> :
                                 t \in {sorted_desc(SubSeq(ids, 1, Len(ids) - 1),
                                                    values_)}}}
         IN  CHOOSE r \in placed : TRUE

\* the slice [:n_select_sample] left out
greedy_select_all(ids, values_, n_select_sample) == sorted_desc(ids, values_)

\* sorted(...)[:n_select_sample]
greedy_select(ids, values_, n_select_sample) ==
    LET s == sorted_desc(ids, values_)
    IN  SubSeq(s, 1, IF n_select_sample < Len(s) THEN n_select_sample ELSE Len(s))

\* a uniform draw, the weights left out
sample_select_uniform(ids, values_, n_select_sample) ==
    [1..n_select_sample -> Range(ids)]

\* np.random.choice(ids, size=n_select_sample, p=values / sum(values)):
\* every draw lands on an id of nonzero probability
sample_select(ids, values_, n_select_sample) ==
    [1..n_select_sample -> {ids[i] : i \in {j \in 1..Len(ids) : values_[j] > 0}}]

\* the ids index the frontier in place of the expanded set
select_new_ys_of_frontier(new_ys_, sel) ==
    [i \in 1..Len(sel) |->
        IF ys = <<>> THEN new_ys_[sel[i] + 1] ELSE ys[(sel[i] % Len(ys)) + 1]]

\* [new_ys[select_id] for select_id in select_ids]
select_new_ys_of(new_ys_, sel) ==
    [i \in 1..Len(sel) |-> new_ys_[sel[i] + 1]]

----------------------------------------------------------------------------
(* State machine *)

NoArgs == [method_generate |-> "none"]
NoRet == [ys |-> <<>>, info |-> "none"]

GenerateMethods == {"sample", "propose", "other"}
EvaluateMethods == {"value", "vote", "other"}
SelectMethods == {"sample", "greedy", "other"}
PromptSamples == {"standard", "cot", "other"}
Inputs == {0, 1}

\* what is left of the cost followed on this task object
Budget == (IF backend = "llm" THEN MaxLlmWork ELSE MaxWork) - work

\* candidates one frontier member expands to: the width under sampling, at
\* most two proposal lines (ProposeCompletions) under proposing
Expansion(a) ==
    IF a.method_generate = "propose" THEN 2 ELSE a.n_generate_sample

Work(a, steps_) ==
    (IF steps_ = 0 THEN 1 ELSE steps_) * Expansion(a) * a.n_select_sample

\* the configurations a run is started with: every recognized combination
\* at every affordable width and selection count, and every combination
\* holding an unrecognized identifier at width and selection count 1
SolveArgs ==
    {a \in [method_generate : GenerateMethods,
            method_evaluate : EvaluateMethods,
            method_select : SelectMethods, prompt_sample : PromptSamples,
            n_generate_sample : 1..Budget, n_evaluate_sample : {1},
            n_select_sample : 1..Budget] :
        /\ Work(a, 1) <= Budget
        /\ a.method_generate = "propose" => a.n_generate_sample = 1
        /\ "other" \in {a.method_generate, a.method_evaluate, a.method_select,
                        a.prompt_sample}
              => a.n_generate_sample = 1 /\ a.n_select_sample = 1}

\* candidates handed to a direct evaluator call
Candidates == {<<"a">>, <<"b", "b">>}

Locals ==
    /\ op = "none" /\ args = NoArgs /\ task_steps = 0
    /\ x = "none" /\ step = 0 /\ ys = <<>> /\ gen = <<>> /\ new_ys = <<>>
    /\ values = <<>> /\ local_value_cache = EmptyCache /\ select_ids = <<>>
    /\ infos = <<>> /\ calls = <<>> /\ error = "none" /\ ret = NoRet
    /\ outputs = NotAsked

Init ==
    /\ pc = "idle"
    /\ Locals
    /\ value_cache = EmptyCache
    /\ evals = EmptyCache
    /\ work = 0
    /\ runs = 0
    /\ backend \in {"length", "llm", "fuzz"}

\* an exception leaves the running call: nothing is returned
Fail(err) ==
    /\ pc' = "failed"
    /\ error' = err

\* the loop leaves one iteration out
loop_continues_short(s, steps_) == s + 1 < steps_

\* for step in range(task.steps), line 102: iteration s takes place
loop_continues(s, steps_) == s < steps_

\* solve, lines 89-99 and the loop test of line 102 for the first iteration
solve_start(a, idx, steps_) ==
    /\ pc = "idle"
    /\ Work(a, steps_) <= Budget
    /\ runs' = runs + 1
    /\ work' = work + Work(a, steps_)
    /\ op' = "solve"
    /\ args' = a
    /\ task_steps' = steps_
    /\ x' = get_input(idx)
    /\ ys' = << <<>> >>
    /\ infos' = <<>>
    /\ step' = 0
    /\ IF loop_continues(0, steps_)
       THEN /\ pc' = "generate"
            /\ ret' = ret
       ELSE /\ pc' = "done"
            /\ ret' = [ys |-> << <<>> >>, info |-> [steps |-> <<>>]]
    /\ UNCHANGED <<gen, new_ys, values, local_value_cache, select_ids,
                   value_cache, calls, error, backend, evals, outputs>>

\* one element of the list comprehension of lines 105-110, and lines 112-113
\* once the comprehension is complete
solve_generate ==
    /\ pc = "generate" /\ op = "solve"
    /\ IF args.method_generate \notin {"sample", "propose"}
       THEN /\ Fail(NewYsUnbound)
            /\ UNCHANGED <<gen, new_ys, calls, outputs>>
       ELSE LET y == ys[Len(gen) + 1]
                outcomes ==
                   IF args.method_generate = "sample"
                   THEN get_samples(x, y, args.n_generate_sample,
                                    args.prompt_sample, task_stops(step))
                   ELSE get_proposals(x, y)
            IN  \E r \in outcomes :
                  /\ calls' = calls \o r.called
                  /\ outputs' = r.outs
                  /\ IF r.raised # "none"
                     THEN /\ Fail(r.raised)
                          /\ UNCHANGED <<gen, new_ys>>
                     ELSE /\ error' = error
                          /\ IF Len(gen) + 1 = Len(ys)
                             THEN /\ new_ys' = Flatten(Append(gen, r.val))
                                  /\ gen' = <<>>
                                  /\ pc' = "evaluate"
                             ELSE /\ gen' = Append(gen, r.val)
                                  /\ new_ys' = new_ys
                                  /\ pc' = pc
    /\ UNCHANGED <<op, args, task_steps, x, step, ys, values, local_value_cache,
                   select_ids, infos, value_cache, ret, backend, evals, work, runs>>

\* no candidate counts as seen before
seen_never(y) == FALSE

\* y in local_value_cache
seen(y) == y \in DOMAIN local_value_cache

\* cache_value as get_values receives it: solve leaves it at its default
CacheValue == IF op = "solve" THEN TRUE ELSE args.cache_value

\* get_values called on its own, lines 29-31 (and line 41 for an empty ys)
get_values_start(idx, ys_, n_evaluate_sample, cache_value) ==
    /\ pc = "idle"
    /\ Len(ys_) <= Budget
    /\ work' = work + Len(ys_)
    /\ op' = "get_values"
    /\ args' = [n_evaluate_sample |-> n_evaluate_sample,
                cache_value |-> cache_value]
    /\ x' = get_input(idx)
    /\ new_ys' = ys_
    /\ IF ys_ = <<>>
       THEN /\ pc' = "done"
            /\ ret' = [ys |-> <<>>, info |-> "values"]
       ELSE /\ pc' = "evaluate"
            /\ ret' = ret
    /\ UNCHANGED <<task_steps, step, ys, gen, values, local_value_cache,
                   select_ids, infos, value_cache, calls, error, backend, evals,
                   runs, outputs>>

\* one iteration of the loop of get_values, lines 34-40, and its return
get_values_step ==
    /\ pc = "evaluate"
    /\ op = "get_values" \/ (op = "solve" /\ args.method_evaluate = "value")
    /\ LET y == new_ys[Len(values) + 1]
           after == IF Len(values) + 1 < Len(new_ys) THEN "evaluate"
                    ELSE IF op = "solve" THEN "select" ELSE "done"
       IN  IF seen(y)
           THEN /\ values' = Append(values, 0)
                /\ pc' = after
                /\ UNCHANGED <<local_value_cache, value_cache, calls, error, evals,
                               outputs>>
           ELSE \E r \in get_value(x, y, args.n_evaluate_sample, CacheValue) :
                  /\ calls' = calls \o r.called
                  /\ outputs' = r.outs
                  /\ value_cache' = r.cache
                  /\ evals' = Recorded(x, y, Eval(x, y, CacheValue, r))
                  /\ IF r.raised # "none"
                     THEN /\ Fail(r.raised)
                          /\ UNCHANGED <<values, local_value_cache>>
                     ELSE /\ values' = Append(values, r.val)
                          /\ local_value_cache' =
                                CachePut(local_value_cache, y, r.val)
                          /\ pc' = after
                          /\ error' = error
    /\ ret' = IF pc' = "done" THEN [ys |-> values', info |-> "values"] ELSE ret
    /\ UNCHANGED <<op, args, task_steps, x, step, ys, gen, new_ys, select_ids,
                   infos, backend, work, runs>>

\* get_value called on its own, lines 13-25
get_value_call(idx, y, n_evaluate_sample, cache_value) ==
    /\ pc = "idle"
    /\ 1 <= Budget
    /\ work' = work + 1
    /\ op' = "get_value"
    /\ args' = [n_evaluate_sample |-> n_evaluate_sample,
                cache_value |-> cache_value]
    /\ x' = get_input(idx)
    /\ \E r \in get_value(get_input(idx), y, n_evaluate_sample, cache_value) :
         /\ calls' = calls \o r.called
         /\ outputs' = r.outs
         /\ value_cache' = r.cache
         /\ evals' = Recorded(get_input(idx), y,
                           Eval(get_input(idx), y, cache_value, r))
         /\ IF r.raised # "none"
            THEN /\ Fail(r.raised)
                 /\ ret' = ret
            ELSE /\ pc' = "done"
                 /\ ret' = [ys |-> <<r.val>>, info |-> "value"]
                 /\ error' = error
    /\ UNCHANGED <<task_steps, step, ys, gen, new_ys, values, local_value_cache,
                   select_ids, infos, backend, runs>>

\* lines 117-122 for the vote strategy and for an unrecognized strategy; the
\* latter binds no values, which the selection of lines 125-133 then reads
solve_evaluate ==
    /\ pc = "evaluate" /\ op = "solve"
    /\ args.method_evaluate # "value"
    /\ IF args.method_evaluate = "vote"
       THEN \E r \in get_votes(x, new_ys, args.n_evaluate_sample) :
              /\ calls' = calls \o r.called
              /\ outputs' = r.outs
              /\ IF r.raised # "none"
                 THEN /\ Fail(r.raised)
                      /\ values' = values
                 ELSE /\ values' = r.val
                      /\ pc' = "select"
                      /\ error' = error
       ELSE /\ Fail(IF args.method_select \in {"sample", "greedy"}
                    THEN ValuesUnbound ELSE SelectIdsUnbound)
            /\ UNCHANGED <<values, calls, outputs>>
    /\ UNCHANGED <<op, args, task_steps, x, step, ys, gen, new_ys,
                   local_value_cache, select_ids, infos, value_cache, ret,
                   backend, evals, work, runs>>

\* the weights are not looked at: any id is drawn, whatever the scores sum to
select_ids_of_unchecked(method_select, ids, values_, n_select_sample) ==
    IF method_select = "sample"
    THEN [1..n_select_sample -> Range(ids)]
    ELSE {greedy_select(ids, values_, n_select_sample)}

\* select_ids of lines 125-131: the lists the selection can produce; none
\* under sampling on scores of sum zero, whose probabilities are NaN and make
\* np.random.choice raise
select_ids_of(method_select, ids, values_, n_select_sample) ==
    IF method_select = "sample"
    THEN IF Sum(values_) = 0 THEN {}
         ELSE sample_select(ids, values_, n_select_sample)
    ELSE {greedy_select(ids, values_, n_select_sample)}

\* lines 125-143 and the loop test of line 102 for the next iteration
solve_select ==
    /\ pc = "select" /\ op = "solve"
    /\ IF args.method_select \notin {"sample", "greedy"}
       THEN /\ Fail(SelectIdsUnbound)
            /\ UNCHANGED <<step, ys, new_ys, values, local_value_cache,
                           select_ids, infos, ret>>
       ELSE IF select_ids_of(args.method_select, ids_of(new_ys), values,
                             args.n_select_sample) = {}
       THEN /\ Fail(ProbabilitiesError)
            /\ UNCHANGED <<step, ys, new_ys, values, local_value_cache,
                           select_ids, infos, ret>>
       ELSE \E sel \in select_ids_of(args.method_select, ids_of(new_ys),
                                     values, args.n_select_sample) :
              LET select_new_ys == select_new_ys_of(new_ys, sel)
                  info == [step |-> step, x |-> x, ys |-> ys, new_ys |-> new_ys,
                           values |-> values, select_new_ys |-> select_new_ys]
              IN  /\ select_ids' = sel
                  /\ infos' = Append(infos, info)
                  /\ ys' = select_new_ys
                  /\ step' = step + 1
                  /\ new_ys' = <<>>
                  /\ values' = <<>>
                  /\ local_value_cache' = EmptyCache
                  /\ error' = error
                  /\ IF loop_continues(step + 1, task_steps)
                     THEN /\ pc' = "generate"
                          /\ ret' = ret
                     ELSE /\ pc' = "done"
                          /\ ret' = [ys |-> select_new_ys,
                                     info |-> [steps |-> infos']]
    /\ UNCHANGED <<op, args, task_steps, x, gen, value_cache, calls, backend,
                   evals, work, runs, outputs>>

\* the stop of the first step of the task handed to the baseline
naive_stop_first_step == task_stops(0)

\* stop=None, line 154
naive_stop == None

\* naive_solve, lines 149-155
naive_solve(a, idx) ==
    /\ pc = "idle"
    /\ a.n_generate_sample <= Budget
    /\ runs' = runs + 1
    /\ work' = work + a.n_generate_sample
    /\ op' = "naive_solve"
    /\ args' = a
    /\ x' = get_input(idx)
    /\ \E r \in get_samples(get_input(idx), <<>>, a.n_generate_sample,
                            a.prompt_sample, naive_stop) :
         /\ calls' = calls \o r.called
         /\ outputs' = r.outs
         /\ IF r.raised # "none"
            THEN /\ Fail(r.raised)
                 /\ UNCHANGED <<ys, ret>>
            ELSE /\ pc' = "done"
                 /\ ys' = r.val
                 /\ ret' = [ys |-> r.val, info |-> "empty"]
                 /\ error' = error
    /\ UNCHANGED <<task_steps, step, gen, new_ys, values, local_value_cache,
                   select_ids, infos, value_cache, backend, evals>>

\* get_proposals called on its own, lines 63-66
get_proposals_call(idx, y) ==
    /\ pc = "idle"
    /\ 1 <= Budget
    /\ work' = work + 1
    /\ op' = "get_proposals"
    /\ x' = get_input(idx)
    /\ ys' = <<y>>
    /\ \E r \in get_proposals(get_input(idx), y) :
         /\ calls' = calls \o r.called
         /\ outputs' = r.outs
         /\ IF r.raised # "none"
            THEN /\ Fail(r.raised)
                 /\ ret' = ret
            ELSE /\ pc' = "done"
                 /\ ret' = [ys |-> r.val, info |-> "proposals"]
                 /\ error' = error
    /\ UNCHANGED <<args, task_steps, step, gen, new_ys, values,
                   local_value_cache, select_ids, infos, value_cache, backend,
                   evals, runs>>

\* get_samples called on its own, lines 71-82
get_samples_call(idx, y, n_generate_sample, prompt_sample, stop) ==
    /\ pc = "idle"
    /\ n_generate_sample <= Budget
    /\ work' = work + n_generate_sample
    /\ op' = "get_samples"
    /\ args' = [n_generate_sample |-> n_generate_sample,
                prompt_sample |-> prompt_sample, stop |-> stop]
    /\ x' = get_input(idx)
    /\ ys' = <<y>>
    /\ \E r \in get_samples(get_input(idx), y, n_generate_sample,
                            prompt_sample, stop) :
         /\ calls' = calls \o r.called
         /\ outputs' = r.outs
         /\ IF r.raised # "none"
            THEN /\ Fail(r.raised)
                 /\ ret' = ret
            ELSE /\ pc' = "done"
                 /\ ret' = [ys |-> r.val, info |-> "samples"]
                 /\ error' = error
    /\ UNCHANGED <<task_steps, step, gen, new_ys, values, local_value_cache,
                   select_ids, infos, value_cache, backend, evals, runs>>

\* the scores of the sets handed to the selection on its own: one to three
\* candidates, as in the spec's examples
ScoredSets == UNION {[1..n -> 0..MaxScore] : n \in 1..3}

\* the candidates of a scored set handed to the selection on its own
Numbered(n) == [i \in 1..n |-> [j \in 1..i |-> "a"]]

\* the selection of solve, lines 125-133, applied on its own to a scored set
select_call(method_select, values_, n_select_sample) ==
    /\ pc = "idle"
    /\ op' = "select"
    /\ args' = [method_select |-> method_select,
                n_select_sample |-> n_select_sample]
    /\ new_ys' = Numbered(Len(values_))
    /\ values' = values_
    /\ IF select_ids_of(method_select, ids_of(new_ys'), values_,
                        n_select_sample) = {}
       THEN /\ Fail(ProbabilitiesError)
            /\ UNCHANGED <<select_ids, ys, ret>>
       ELSE \E sel \in select_ids_of(method_select, ids_of(new_ys'), values_,
                                     n_select_sample) :
              /\ select_ids' = sel
              /\ ys' = select_new_ys_of(new_ys', sel)
              /\ ret' = [ys |-> ys', info |-> "selection"]
              /\ pc' = "done"
              /\ error' = error
    /\ UNCHANGED <<task_steps, x, step, gen, local_value_cache, infos,
                   value_cache, calls, backend, evals, work, runs, outputs>>

\* the caller takes the result or the exception and keeps the task object,
\* with its value cache, for the next call. A task object is followed through
\* one search run after its first; against the freely answering backend a
\* search run is followed on a fresh task object only (Fresh) and not beyond
Return ==
    /\ pc \in {"done", "failed"}
    /\ op \in {"solve", "naive_solve"} => runs < 2 /\ backend # "llm"
    /\ pc' = "idle"
    /\ op' = "none" /\ args' = NoArgs /\ task_steps' = 0
    /\ x' = "none" /\ step' = 0 /\ ys' = <<>> /\ gen' = <<>> /\ new_ys' = <<>>
    /\ values' = <<>> /\ local_value_cache' = EmptyCache /\ select_ids' = <<>>
    /\ infos' = <<>> /\ calls' = <<>> /\ error' = "none" /\ ret' = NoRet
    /\ outputs' = NotAsked
    /\ UNCHANGED <<value_cache, backend, evals, work, runs>>

Fresh == backend = "llm" => work = 0

Next ==
    \/ /\ pc = "idle" /\ backend # "fuzz" /\ Fresh
       /\ \E a \in SolveArgs, steps_ \in 0..Budget : solve_start(a, 0, steps_)
    \/ solve_generate
    \/ get_values_step
    \/ solve_evaluate
    \/ solve_select
    \/ /\ pc = "idle" /\ backend # "fuzz" /\ Fresh
       /\ \E a \in SolveArgs : naive_solve(a, 0)
    \/ /\ pc = "idle" /\ backend = "llm"
       /\ \E idx \in Inputs, y \in Candidates, cache_value \in BOOLEAN :
             get_value_call(idx, y, 1, cache_value)
    \/ /\ pc = "idle" /\ backend = "llm"
       /\ \E ys_ \in StringsUpTo(Candidates, Budget), cache_value \in BOOLEAN :
             get_values_start(0, ys_, 1, cache_value)
    \/ /\ pc = "idle" /\ backend = "fuzz"
       /\ \E y \in Candidates : get_proposals_call(0, y)
    \/ /\ pc = "idle" /\ backend = "fuzz"
       /\ \E y \in Candidates, n \in 1..MaxLen,
             prompt_sample \in PromptSamples, stop \in {None, NL} :
             get_samples_call(0, y, n, prompt_sample, stop)
    \/ /\ pc = "idle" /\ backend = "fuzz" /\ work = 0
       /\ \E values_ \in ScoredSets,
             method_select \in {"sample", "greedy"}, n \in 1..MaxWork :
             select_call(method_select, values_, n)
    \/ Return

Spec == Init /\ [][Next]_vars

\* one search run on a new task object: the interpreter runs solve to its
\* return or to the exception that leaves it
SolveStep == solve_generate \/ get_values_step \/ solve_evaluate \/ solve_select

SolveNext ==
    \/ /\ pc = "idle" /\ backend # "fuzz" /\ Fresh
       /\ \E a \in SolveArgs, steps_ \in 0..Budget : solve_start(a, 0, steps_)
    \/ solve_generate
    \/ get_values_step
    \/ solve_evaluate
    \/ solve_select

SolveSpec == Init /\ [][SolveNext]_vars /\ WF_vars(SolveStep)

----------------------------------------------------------------------------
(* Value cache: repeated evaluation of one (x, y) *)

\* the (x, y) whose last two get_value invocations both ran with caching
\* enabled and both returned
CachedTwice ==
    {k \in DOMAIN evals :
        /\ Len(evals[k]) = 2
        /\ \A i \in 1..2 : evals[k][i].cache_value /\ evals[k][i].raised = "none"}

\* C1 as stated: two successive evaluations of the same (x, y) with caching
\* enabled issue exactly one scoring call in total, and the second returns
\* the first's score without a call.
C1_ExactlyOneCall ==
    \A k \in CachedTwice :
        /\ evals[k][1].ncalls + evals[k][2].ncalls = 1
        /\ evals[k][2].ncalls = 0
        /\ evals[k][2].val = evals[k][1].val

\* C1 amended: of two successive evaluations of the same (x, y) with caching
\* enabled, the second issues no scoring call and returns the first's score;
\* the first issues exactly one call when the rendered prompt was not yet a
\* key of the cache and none when it already was.
C1_SecondFromCache ==
    \A k \in CachedTwice :
        /\ evals[k][2].ncalls = 0
        /\ evals[k][2].val = evals[k][1].val
        /\ evals[k][1].ncalls = IF evals[k][1].cached_before THEN 0 ELSE 1

\* a pair scored by the freely answering backend and then evaluated again
C1_Witness ==
    \E k \in CachedTwice :
        /\ backend = "llm"
        /\ ~evals[k][1].cached_before
        /\ evals[k][1].ncalls = 1
        /\ evals[k][2].ncalls = 0

----------------------------------------------------------------------------
(* Duplicate suppression within one get_values call *)

\* a get_values call is under way or has just returned its values
InGetValues ==
    \/ op = "get_values" /\ pc \in {"evaluate", "done"}
    \/ op = "solve" /\ args.method_evaluate = "value" /\ pc \in {"evaluate", "select"}

\* position i of the candidate list repeats an earlier position
Repeats(i) == \E j \in 1..(i - 1) : new_ys[j] = new_ys[i]

\* the last get_value invocation recorded for candidate y of this call
LastEval(y) == evals[<<x, y>>][Len(evals[<<x, y>>])]

\* scoring calls issued so far by the get_values call under way
ScoringCalls ==
    {i \in 1..Len(calls) : calls[i].fn = "get_value" /\ calls[i].step = step}

C2_Scores ==
    InGetValues =>
        /\ Len(values) <= Len(new_ys)
        /\ \A i \in 1..Len(values) :
              IF Repeats(i) THEN values[i] = 0
              ELSE /\ <<x, new_ys[i]>> \in DOMAIN evals
                   /\ values[i] = LastEval(new_ys[i]).val
        /\ Cardinality(ScoringCalls) =
              Cardinality({y \in Range(SubSeq(new_ys, 1, Len(values))) :
                              LastEval(y).ncalls = 1})

\* the step of the loop that handles a repeated candidate
C2_RepeatStep ==
    /\ InGetValues /\ pc = "evaluate"
    /\ Len(values') = Len(values) + 1
    /\ Repeats(Len(values) + 1)

\* C2: in one get_values call every first occurrence of a candidate gets the
\* score get_value computed for it and every later identical occurrence gets
\* 0, one score per candidate in input order; a repeated candidate triggers
\* no scoring call and no get_value invocation (so no cache lookup), and
\* leaves the value cache as it was, whatever the cache holds for it.
C2_DuplicatesScoreZero ==
    /\ [](C2_Scores)
    /\ [][C2_RepeatStep =>
            /\ values' = Append(values, 0)
            /\ calls' = calls /\ evals' = evals /\ value_cache' = value_cache]_vars

\* ys = [A, A, B] returned [score(A), 0, score(B)] with nonzero scores, the
\* cache holding score(A) under A's prompt when the second A was handled
C2_Witness ==
    /\ op = "get_values" /\ pc = "done"
    /\ Len(new_ys) = 3 /\ new_ys[1] = new_ys[2] /\ new_ys[3] # new_ys[1]
    /\ values[1] > 0 /\ values[2] = 0 /\ values[3] > 0
    /\ value_prompt_wrap(x, new_ys[1]) \in DOMAIN value_cache
    /\ value_cache[value_prompt_wrap(x, new_ys[1])] = values[1]

----------------------------------------------------------------------------
(* Configuration errors *)

\* the run was configured with an identifier the code does not recognize
Unrecognized ==
    "other" \in {args.method_generate, args.method_evaluate,
                 args.method_select, args.prompt_sample}

\* C3: a solve run configured with an unrecognized generation, evaluation or
\* selection strategy or prompt-template mode, on a backend that does not
\* fail, has issued no backend call, and it ends only by failing with an
\* explicit configuration error.
C3_FailsFastBeforeAnyCall ==
    (op = "solve" /\ task_steps >= 1 /\ Unrecognized
        /\ outputs.status # "raised") =>
        /\ calls = <<>>
        /\ pc # "done"
        /\ pc = "failed" => error = PromptSampleError

----------------------------------------------------------------------------
(* Proposals *)

\* the non-empty lines of a completion: the positions where a run of
\* characters other than the line terminator starts
LineStarts(s) ==
    {i \in 1..Len(s) : s[i] # NL /\ (i = 1 \/ s[i - 1] = NL)}

\* C4: get_proposals returns as many candidates as the completion has
\* non-empty lines; an empty line yields no candidate.
C4_OneCandidatePerNonEmptyLine ==
    (op = "get_proposals" /\ pc = "done") =>
        /\ Len(ret.ys) = Cardinality(LineStarts(outputs.val[1]))
        /\ \A i \in 1..Len(ret.ys) : ret.ys[i] # ys[1] \o <<NL>>

----------------------------------------------------------------------------
(* Selection *)

\* a selection has been made: the last one of the running solve, or the one
\* of a selection applied on its own
Selected ==
    \/ op = "solve" /\ infos # <<>>
    \/ op = "select" /\ pc = "done"

\* the scores the last selection was made on, and the candidates it chose from
SelValues == IF op = "solve" THEN infos[Len(infos)].values ELSE values
SelNewYs == IF op = "solve" THEN infos[Len(infos)].new_ys ELSE new_ys
SelChosen == IF op = "solve" THEN infos[Len(infos)].select_new_ys ELSE ys

Min(a, b) == IF a < b THEN a ELSE b

\* id a comes before id b in the order by score descending, original order
\* among equal scores
Before(a, b) ==
    \/ SelValues[a + 1] > SelValues[b + 1]
    \/ SelValues[a + 1] = SelValues[b + 1] /\ a < b

\* C5: greedy selection returns the first min(count, n) ids of the candidates
\* ordered by score descending, equal scores in their original order.
C5_GreedyStableTopK ==
    (Selected /\ args.method_select = "greedy") =>
        /\ Len(select_ids) = Min(args.n_select_sample, Len(SelValues))
        /\ \A i \in 1..Len(select_ids) : select_ids[i] \in 0..(Len(SelValues) - 1)
        /\ \A i, j \in 1..Len(select_ids) :
              i < j => Before(select_ids[i], select_ids[j])
        /\ \A a \in 0..(Len(SelValues) - 1) :
              a \notin Range(select_ids) =>
                 \A i \in 1..Len(select_ids) : Before(select_ids[i], a)

\* the two top candidates tie around a lower one and count 2 selects ids
\* [0, 2], as scores [3, 1, 3] do
C5_Witness ==
    /\ Selected /\ args.method_select = "greedy" /\ args.n_select_sample = 2
    /\ Len(SelValues) = 3
    /\ SelValues[1] = SelValues[3] /\ SelValues[2] < SelValues[1]
    /\ SelValues[2] > 0
    /\ select_ids = <<0, 2>>

\* C7: weighted sampling over non-negative scores of nonzero sum draws each
\* of its count ids from the ids of nonzero score.
C7_SampleNeverPicksZero ==
    (Selected /\ args.method_select = "sample") =>
        /\ Sum(SelValues) > 0
        /\ Len(select_ids) = args.n_select_sample
        /\ \A i \in 1..Len(select_ids) :
              /\ select_ids[i] \in 0..(Len(SelValues) - 1)
              /\ SelValues[select_ids[i] + 1] > 0
        /\ SelChosen = [i \in 1..Len(select_ids) |-> SelNewYs[select_ids[i] + 1]]

\* scores [s, 0, 0] with s > 0 and count 5: id 0 five times
C7_Witness ==
    /\ Selected /\ args.method_select = "sample" /\ args.n_select_sample = 5
    /\ Len(SelValues) = 3
    /\ SelValues[1] > 0 /\ SelValues[2] = 0 /\ SelValues[3] = 0
    /\ select_ids = <<0, 0, 0, 0, 0>>

\* C10: every completed step of solve leaves a frontier of exactly
\* min(count, size of the expanded set) candidates under greedy selection and
\* exactly count under sampling, so after the first step the frontier never
\* holds more than count candidates.
C10_FrontierBounded ==
    op = "solve" =>
        /\ \A i \in 1..Len(infos) :
              Len(infos[i].select_new_ys) =
                 IF args.method_select = "greedy"
                 THEN Min(args.n_select_sample, Len(infos[i].new_ys))
                 ELSE args.n_select_sample
        /\ infos # <<>> =>
              /\ ys = infos[Len(infos)].select_new_ys
              /\ Len(ys) <= args.n_select_sample
              /\ Len(ys) >= 1

\* a second greedy step whose expanded set is larger than the count is cut to
\* the count
C10_Witness ==
    /\ op = "solve" /\ pc = "done" /\ Len(infos) = 2
    /\ args.method_select = "greedy"
    /\ Len(infos[2].ys) = args.n_select_sample
    /\ Len(infos[2].new_ys) > args.n_select_sample
    /\ Len(ys) = args.n_select_sample

\* a greedy step whose expanded set is smaller than the count keeps all of it
C10_WitnessGreedySmall ==
    /\ op = "solve" /\ infos # <<>>
    /\ args.method_select = "greedy"
    /\ Len(infos[1].new_ys) < args.n_select_sample
    /\ Len(infos[1].select_new_ys) = Len(infos[1].new_ys)

\* a sampling step whose expanded set is smaller than the count fills the count
C10_WitnessSampleFull ==
    /\ op = "solve" /\ infos # <<>>
    /\ args.method_select = "sample"
    /\ Len(infos[1].new_ys) < args.n_select_sample
    /\ Len(infos[1].select_new_ys) = args.n_select_sample

----------------------------------------------------------------------------
(* Search runs *)

\* a search run on the backend that scores a candidate by its length, with
\* value evaluation and greedy selection of one candidate
LengthRun ==
    /\ op = "solve" /\ backend = "length"
    /\ args.method_evaluate = "value" /\ args.method_select = "greedy"
    /\ args.n_select_sample = 1

\* candidate y of the step recorded in info is selected at an index whose
\* recorded score is the highest of the step
TopScored(info, y) ==
    \E i \in 1..Len(info.new_ys) :
        /\ info.new_ys[i] = y
        /\ \A j \in 1..Len(info.values) : info.values[i] >= info.values[j]

\* C6: with greedy selection of one candidate, value evaluation and a backend
\* scoring a candidate by its length, each step keeps a longest candidate of
\* its expanded set, one whose recorded score is the highest of the step, and
\* the candidate returned is at least as long as every candidate generated.
C6_LongestWins ==
    LengthRun =>
        /\ \A s \in 1..Len(infos) :
              /\ Len(infos[s].select_new_ys) = 1
              /\ TopScored(infos[s], infos[s].select_new_ys[1])
              /\ \A j \in 1..Len(infos[s].new_ys) :
                    Len(infos[s].select_new_ys[1]) >= Len(infos[s].new_ys[j])
        /\ (pc = "done" /\ infos # <<>>) =>
              /\ Len(ret.ys) = 1
              /\ \A s \in 1..Len(infos) : \A j \in 1..Len(infos[s].new_ys) :
                    Len(ret.ys[1]) >= Len(infos[s].new_ys[j])

\* two steps, the second expanding to a shorter candidate listed before a
\* longer one: the longer one is returned
C6_Witness ==
    /\ LengthRun /\ pc = "done" /\ Len(infos) = 2
    /\ Len(infos[2].new_ys) = 2
    /\ Len(infos[2].new_ys[1]) < Len(infos[2].new_ys[2])
    /\ ret.ys = <<infos[2].new_ys[2]>>

\* C8: a backend failure during step s of solve ends the run with that
\* failure: nothing is returned, the failing call is the last one issued, no
\* record of step s exists and the trace holds the records of steps 0..s-1.
C8_BackendFailurePropagates ==
    (op = "solve" /\ outputs.status = "raised") =>
        /\ pc = "failed" /\ error = BackendError
        /\ ret = NoRet
        /\ calls # <<>> /\ calls[Len(calls)].step = step
        /\ Len(infos) = step
        /\ \A i \in 1..Len(infos) : infos[i].step = i - 1

\* the backend fails during the evaluation of step 1, after step 0 completed
C8_Witness ==
    /\ op = "solve" /\ outputs.status = "raised" /\ pc = "failed"
    /\ step = 1 /\ Len(infos) = 1 /\ infos[1].step = 0
    /\ new_ys # <<>>

\* naive_solve has returned
NaiveDone == op = "naive_solve" /\ pc = "done"

\* C9: naive_solve with width w returns the w candidates of one generation
\* call issued for w completions with no stop, and leaves the value cache as
\* it found it.
C9_NaiveOneCallCacheUntouched ==
    /\ [](NaiveDone =>
            /\ Len(ret.ys) = args.n_generate_sample
            /\ Len(calls) = 1
            /\ calls[1].fn = "get_samples"
            /\ calls[1].n = args.n_generate_sample
            /\ calls[1].stop = None
            /\ ret.info = "empty")
    /\ [][op' = "naive_solve" =>
             value_cache' = value_cache /\ evals' = evals]_vars

\* the baseline returns two candidates on a task whose cache an earlier search
\* run has filled
C9_Witness ==
    /\ NaiveDone /\ args.n_generate_sample = 2 /\ Len(ret.ys) = 2
    /\ DOMAIN value_cache # {}

----------------------------------------------------------------------------
(* Termination of the search loop *)

\* a search run with a recognized configuration in which no backend call has
\* failed
ValidRun == op = "solve" /\ ~Unrecognized /\ outputs.status # "raised"

\* the run has ended: solve returned or an exception left it
Ended == pc \in {"done", "failed"}

\* solve returned the frontier and a trace of exactly task.steps records,
\* numbered 0 .. steps-1 in order
ReturnedFullTrace ==
    /\ ret.ys = ys
    /\ ret.info.steps = infos
    /\ step = task_steps
    /\ Len(infos) = task_steps
    /\ \A i \in 1..Len(infos) : infos[i].step = i - 1

\* C11 as stated: a run with a valid configuration whose backend calls all
\* return never ends in an error, and returns, when it ends, with a trace of
\* exactly task.steps records numbered in order.
C11_AlwaysCompletes ==
    ValidRun =>
        /\ pc # "failed"
        /\ pc = "done" => ReturnedFullTrace

\* C11: a run with a valid configuration whose backend calls all return ends,
\* its iterations following one another without going back; it ends in an
\* error only under sampling selection on scores of sum zero, and otherwise
\* returns the frontier with a trace of exactly task.steps records numbered
\* 0 .. steps-1.
C11_CompletesUnlessZeroSum ==
    /\ [](ValidRun =>
            /\ step <= task_steps /\ Len(infos) = step
            /\ pc = "failed" =>
                  /\ error = ProbabilitiesError
                  /\ args.method_select = "sample" /\ Sum(values) = 0
            /\ pc = "done" => ReturnedFullTrace)
    /\ [][(op = "solve" /\ op' = "solve") =>
             /\ step' \in {step, step + 1}
             /\ step' = step + 1 <=> pc = "select" /\ pc' \in {"generate", "done"}]_vars
    /\ (op = "solve" ~> Ended)

\* a run of two steps returned with its two records
C11_Witness ==
    /\ ValidRun /\ pc = "done" /\ task_steps = 2
    /\ Len(infos) = 2 /\ infos[1].step = 0 /\ infos[2].step = 1

----------------------------------------------------------------------------
(* Samples *)

\* get_samples, called on its own with width w on candidate y, has returned
\* after a backend call that gave w completions
SamplesDone ==
    /\ op = "get_samples" /\ pc = "done"
    /\ Len(outputs.val) = args.n_generate_sample

\* C12: get_samples with width w on y, its backend call returning w
\* completions, issues that one call and returns w candidates, the i-th being
\* y followed by the i-th completion, so that each starts with y.
C12_SamplesExtendCandidate ==
    SamplesDone =>
        /\ Len(calls) = 1
        /\ calls[1].fn = "get_samples"
        /\ calls[1].n = args.n_generate_sample
        /\ calls[1].stop = args.stop
        /\ Len(ret.ys) = args.n_generate_sample
        /\ \A i \in 1..Len(ret.ys) :
              /\ ret.ys[i] = ys[1] \o outputs.val[i]
              /\ Len(ret.ys[i]) >= Len(ys[1])
              /\ SubSeq(ret.ys[i], 1, Len(ys[1])) = ys[1]

\* width 2 on a candidate of two characters, with two different completions
C12_Witness ==
    /\ SamplesDone /\ args.n_generate_sample = 2
    /\ Len(ys[1]) = 2
    /\ outputs.val[1] # outputs.val[2]
    /\ ret.ys = <<ys[1] \o outputs.val[1], ys[1] \o outputs.val[2]>>

----------------------------------------------------------------------------
(* Order of the backend calls of a search run *)

GenerationCall(c) == c.fn \in {"get_samples", "get_proposals"}
EvaluationCall(c) == c.fn \in {"get_value", "get_votes"}

\* the frontier step s started from
FrontierBefore(s) == IF s < Len(infos) THEN infos[s + 1].ys ELSE ys

\* the candidates the generation calls of step s were issued for, in the order
\* of the calls
GeneratedFor(s) ==
    LET cs == SelectSeq(calls, LAMBDA c : c.step = s /\ GenerationCall(c))
    IN  [i \in 1..Len(cs) |-> cs[i].prompt[3]]

\* step s has issued an evaluation call
Evaluating(s) == \E i \in 1..Len(calls) : calls[i].step = s /\ EvaluationCall(calls[i])

----------------------------------------------------------------------------
(* Value cache: growth *)

\* the evaluation under way runs with caching enabled: solve always does, a
\* direct call as its cache_value says
CachingOn ==
    \/ op = "solve"
    \/ op \in {"get_value", "get_values"} /\ args.cache_value

\* this step issued a scoring call, which returned
ScoringReturned ==
    /\ Len(calls') = Len(calls) + 1
    /\ calls'[Len(calls')].fn = "get_value"
    /\ outputs'.status = "returned"

\* the prompt and the score of the scoring call this step issued
ScoredPrompt == calls'[Len(calls')].prompt
ScoredValue == Sum(outputs'.scores)

\* C14: the value cache only grows: a key stays with the score it has, with
\* caching enabled no scoring call is issued for a prompt that is a key, and
\* a scoring call that returns adds the one entry of the prompt it scored;
\* nothing else changes the cache.
C14_CacheOnlyGrows ==
    [][/\ \A p \in DOMAIN value_cache :
             p \in DOMAIN value_cache' /\ value_cache'[p] = value_cache[p]
       /\ (ScoringReturned /\ CachingOn') =>
             /\ ScoredPrompt \notin DOMAIN value_cache
             /\ DOMAIN value_cache' = DOMAIN value_cache \cup {ScoredPrompt}
             /\ value_cache'[ScoredPrompt] = ScoredValue
       /\ ~(ScoringReturned /\ CachingOn') => value_cache' = value_cache]_vars

\* a cache of two entries answers an evaluation without a call
C14_Witness ==
    /\ op = "get_value" /\ pc = "done" /\ args.cache_value
    /\ calls = <<>>
    /\ Cardinality(DOMAIN value_cache) = 2
    /\ \E p \in DOMAIN value_cache : ret.ys = <<value_cache[p]>> /\ value_cache[p] > 0

----------------------------------------------------------------------------
(* Expanded set *)

\* candidate c is candidate y with something appended
Extends(c, y) == Len(c) >= Len(y) /\ SubSeq(c, 1, Len(y)) = y

\* under sampling the expanded set is, member after member of the frontier,
\* the width candidates generated from that member
SampledFrom(frontier, expanded, width) ==
    /\ Len(expanded) = Len(frontier) * width
    /\ \A k \in 1..Len(frontier) : \A i \in 1..width :
          \E c \in SampleCompletions :
              expanded[(k - 1) * width + i] = frontier[k] \o c

\* under proposing the expanded set splits into one non-empty run of
\* candidates for each member of the frontier, in frontier order, each
\* candidate being its member followed by a line and a line terminator
ProposedFrom(frontier, expanded) ==
    \E f \in [1..Len(expanded) -> 1..Len(frontier)] :
        /\ \A k \in 1..Len(frontier) : \E j \in 1..Len(expanded) : f[j] = k
        /\ \A i, j \in 1..Len(expanded) : i < j => f[i] <= f[j]
        /\ \A j \in 1..Len(expanded) :
              /\ Extends(expanded[j], frontier[f[j]])
              /\ Len(expanded[j]) > Len(frontier[f[j]])
              /\ expanded[j][Len(expanded[j])] = NL

ExpandedFrom(frontier, expanded) ==
    IF args.method_generate = "sample"
    THEN SampledFrom(frontier, expanded, args.n_generate_sample)
    ELSE ProposedFrom(frontier, expanded)

----------------------------------------------------------------------------
(* Sampling selection on scores of sum zero *)

\* the frontier the step under way started from
FrontierNow ==
    IF infos = <<>> THEN << <<>> >> ELSE infos[Len(infos)].select_new_ys

\* the step under way has scored its whole expanded set, and the scores sum
\* to zero
ZeroSum ==
    /\ new_ys # <<>> /\ Len(values) = Len(new_ys)
    /\ Sum(values) = 0

\* C16: under sampling selection a step whose scores sum to zero ends the
\* search run with the error of the selection: no record of the step is
\* appended and no frontier comes out of it, nothing is returned.
C16_ZeroSumFails ==
    (op = "solve" /\ args.method_select = "sample") =>
        /\ \A s \in 1..Len(infos) : Sum(infos[s].values) > 0
        /\ ZeroSum => pc \in {"select", "failed"}
        /\ (pc = "failed" /\ error = ProbabilitiesError) =>
              /\ ZeroSum
              /\ Len(infos) = step
              /\ ys = FrontierNow
              /\ ret = NoRet

\* the second step of a run fails on two scores of zero, one of them that of
\* a repeated candidate
C16_Witness ==
    /\ op = "solve" /\ args.method_select = "sample"
    /\ pc = "failed" /\ error = ProbabilitiesError
    /\ step = 1 /\ Len(infos) = 1
    /\ Len(new_ys) = 2 /\ new_ys[1] = new_ys[2]
    /\ values = <<0, 0>>

----------------------------------------------------------------------------
(* Value cache: caching disabled *)

\* a direct evaluation running with caching disabled
CachingOff == op \in {"get_value", "get_values"} /\ ~args.cache_value

\* C17: with caching disabled an evaluation leaves the value cache as it is
\* and issues one scoring call for every candidate occurring for the first
\* time, whether its prompt is a key of the cache or not, returning the score
\* of that call.
C17_UncachedEvaluation ==
    /\ [](/\ \A k \in DOMAIN evals : \A i \in 1..Len(evals[k]) :
               ~evals[k][i].cache_value => evals[k][i].ncalls = 1
          /\ (CachingOff /\ op = "get_value" /\ pc = "done") =>
                /\ Len(calls) = 1
                /\ ret.ys = <<Sum(outputs.scores)>>
          /\ (CachingOff /\ op = "get_values" /\ pc = "done") =>
                /\ Len(calls) = Cardinality(Range(new_ys))
                /\ \A y \in Range(new_ys) :
                      \E i \in 1..Len(calls) : calls[i].prompt = value_prompt_wrap(x, y))
    /\ [][CachingOff' => value_cache' = value_cache]_vars

\* an evaluation with caching disabled of a candidate whose prompt is a key of
\* the cache: one call, whose score is not the cached one
C17_Witness ==
    /\ CachingOff /\ op = "get_value" /\ pc = "done"
    /\ Len(calls) = 1
    /\ calls[1].prompt \in DOMAIN value_cache
    /\ ret.ys # <<value_cache[calls[1].prompt]>>

----------------------------------------------------------------------------
(* Trace *)

\* C18: the trace chains the frontier: record 0 starts from the single empty
\* candidate, every later record from the frontier the record before it
\* selected; the selected candidates of a record are candidates of its
\* expanded set; solve returns the frontier the last record selected, or the
\* single empty candidate when there is no step; and a record once appended
\* stays as it is.
C18_TraceChainsFrontier ==
    /\ [](op = "solve" =>
            /\ \A i \in 1..Len(infos) :
                  /\ infos[i].ys = IF i = 1 THEN << <<>> >>
                                   ELSE infos[i - 1].select_new_ys
                  /\ \A j \in 1..Len(infos[i].select_new_ys) :
                        \E k \in 1..Len(infos[i].new_ys) :
                            infos[i].select_new_ys[j] = infos[i].new_ys[k]
            /\ ys = FrontierNow
            /\ pc = "done" =>
                  /\ ret.ys = FrontierNow
                  /\ ret.info.steps = infos
                  /\ task_steps = 0 => ret.ys = << <<>> >>)
    /\ [][(op = "solve" /\ op' = "solve") =>
             /\ Len(infos') >= Len(infos)
             /\ SubSeq(infos', 1, Len(infos)) = infos]_vars

\* a returned run of two steps whose second record starts from the non-empty
\* frontier its first record selected
C18_Witness ==
    /\ op = "solve" /\ pc = "done" /\ Len(infos) = 2
    /\ infos[1].ys = << <<>> >>
    /\ infos[2].ys = infos[1].select_new_ys
    /\ infos[2].ys # infos[1].ys
    /\ ret.ys = infos[2].select_new_ys

====
